---- MODULE Spec2Model ----
(***************************************************************************)
(* Model of the weighted heat risk pipeline                                *)
(* (src/ai/weighted_heat_risk_pipeline.py) and of the append step of the   *)
(* fetch script (src/ai/fetch_pipeline_data.py).                           *)
(*                                                                         *)
(* Numbers are exact rationals <<num, den>> with den > 0; a missing value  *)
(* (pandas NaN) is the pair <<0, 0>>.                                      *)
(***************************************************************************)
EXTENDS Integers, Sequences, FiniteSets, TLC

VARIABLES
    pc,               \* the next step of the pipeline's main
    input_exists,     \* input_path.exists()
    input_columns,    \* the header of the input CSV
    input_table,      \* the rows of the input CSV, in file order
    columns,          \* df.columns
    df,               \* the rows of the data frame df, in frame order
    use_rolling,      \* not args.no_rolling
    window,           \* args.window
    n_clusters,       \* args.clusters
    upload,           \* args.upload
    backend_url,      \* BACKEND_URL is set and non-empty
    feature_cols,     \* the feature names prepare_features returns
    weights,          \* the weight vector prepare_features returns
    features_scaled,  \* the matrix prepare_features returns, one row per df row
    cluster_rank,     \* label -> risk level, as run_kmeans_and_risk_levels builds it
    output_file,      \* the file at args.output
    posted,           \* the body handed to requests.post, Absent if none was
    rc,               \* the exit code of the run, or NoRc while it runs
    error,            \* the exception that ended the run, or ""
    upload_result,    \* "none", "ok" or "failed": how the upload attempt ended
    history,          \* fetch script: the CSV file at args.append (text cells)
    history0,         \* fetch script: the history as it was before the first append
    snapshot_file,    \* fetch script: the CSV file at args.output (text cells)
    appends           \* fetch script: the number of runs in append mode so far

\* What a run is given: the input file, the arguments and the environment.
inputs == <<input_exists, input_columns, input_table, use_rolling, window, n_clusters,
            upload, backend_url>>
pipe_vars == <<pc, inputs, columns, df, feature_cols, weights, features_scaled,
               cluster_rank, output_file, posted, rc, error, upload_result>>
fetch_vars == <<history, history0, snapshot_file, appends>>
vars == <<pipe_vars, fetch_vars>>

\* A file is there with its rows, or it is not.
File(rows) == [exists |-> TRUE, rows |-> rows]
Absent == [exists |-> FALSE, rows |-> <<>>]
NoRc == -1

----------------------------------------------------------------------------
(* Exact arithmetic with NaN.                                              *)

NaN == <<0, 0>>
IsNaN(x) == x[2] = 0
Num(n) == <<n, 1>>
Abs(n) == IF n < 0 THEN -n ELSE n

RECURSIVE GCD(_, _)
GCD(a, b) == IF b = 0 THEN a ELSE GCD(b, a % b)

Norm(n, d) ==
    IF d = 0 THEN NaN
    ELSE IF n = 0 THEN <<0, 1>>
    ELSE LET g == GCD(Abs(n), Abs(d))
             s == IF d < 0 THEN -1 ELSE 1
         IN  <<(s * n) \div g, (s * d) \div g>>

RAdd(x, y) == IF IsNaN(x) \/ IsNaN(y) THEN NaN ELSE Norm(x[1] * y[2] + y[1] * x[2], x[2] * y[2])
RSub(x, y) == IF IsNaN(x) \/ IsNaN(y) THEN NaN ELSE Norm(x[1] * y[2] - y[1] * x[2], x[2] * y[2])
RMul(x, y) == IF IsNaN(x) \/ IsNaN(y) THEN NaN ELSE Norm(x[1] * y[1], x[2] * y[2])
RDiv(x, y) == IF IsNaN(x) \/ IsNaN(y) THEN NaN ELSE Norm(x[1] * y[2], x[2] * y[1])
RLt(x, y) == ~IsNaN(x) /\ ~IsNaN(y) /\ x[1] * y[2] < y[1] * x[2]

RECURSIVE RSum(_)
RSum(s) == IF s = <<>> THEN Num(0) ELSE RAdd(Head(s), RSum(Tail(s)))

NotNaN(x) == ~IsNaN(x)
\* Series.mean(): the mean of the values that are present, NaN when none is.
Mean(s) ==
    LET v == SelectSeq(s, NotNaN)
    IN  IF v = <<>> THEN NaN ELSE RDiv(RSum(v), Num(Len(v)))

RECURSIVE Dot(_, _)
Dot(a, b) == IF a = <<>> THEN Num(0) ELSE RAdd(RMul(Head(a), Head(b)), Dot(Tail(a), Tail(b)))

Range(s) == {s[i] : i \in 1..Len(s)}

\* The function f, computed once for its whole domain (TLC otherwise computes
\* f[x] anew at every use).
Value(f) == f @@ <<>>
Col(rows, f) == [i \in 1..Len(rows) |-> rows[i][f]]

----------------------------------------------------------------------------
(* load_data                                                               *)

RequiredColumns == <<"barangay_id", "date", "temperature">>
AllColumns == {"barangay_id", "date", "temperature", "facility_distance",
               "facility_score", "density", "population"}

\* load_data without its elif branch: only the three required columns checked.
LoadFailsRequiredOnly(cols) ==
    \E i \in 1..Len(RequiredColumns) : RequiredColumns[i] \notin cols

\* The conditions under which load_data raises ValueError.
LoadFails(cols) ==
    \/ \E i \in 1..Len(RequiredColumns) : RequiredColumns[i] \notin cols
    \/ ("facility_distance" \notin cols /\ "facility_score" \notin cols)

LoadRow(cols, r) ==
    [r EXCEPT !.facility_distance =
                  IF "facility_distance" \notin cols THEN r.facility_score ELSE @,
              !.density = IF "density" \notin cols THEN Num(0) ELSE @]

----------------------------------------------------------------------------
(* prepare_features                                                        *)

KeyLe(a, b) ==
    \/ a.barangay_id < b.barangay_id
    \/ (a.barangay_id = b.barangay_id /\ a.date <= b.date)

RECURSIVE InsertSorted(_, _)
InsertSorted(s, r) ==
    IF s = <<>> THEN <<r>>
    ELSE IF KeyLe(Head(s), r) THEN <<Head(s)>> \o InsertSorted(Tail(s), r)
    ELSE <<r>> \o s

RECURSIVE SortPrefix(_, _)
SortPrefix(s, n) == IF n = 0 THEN <<>> ELSE InsertSorted(SortPrefix(s, n - 1), s[n])

\* df.sort_values(["barangay_id", "date"]): a stable sort.
SortValues(s) == SortPrefix(s, Len(s))

NUnique(s) == Cardinality(Range(s))

\* The rows of i's group that rolling(window=w) averages at row i of the sorted
\* frame: the last w rows of the group up to and including i.
RollingWindow(rows, i, w) ==
    {j \in 1..i : rows[j].barangay_id = rows[i].barangay_id /\ i - j < w}

SeqOfIdx(rows, f, idx) ==
    LET keep(j) == j \in idx
        order == SelectSeq([j \in 1..Len(rows) |-> j], keep)
    IN  [k \in 1..Len(order) |-> rows[order[k]][f]]

\* x.rolling(window=w, min_periods=1).mean() at row i.
RollingMean(rows, i, w) == Mean(SeqOfIdx(rows, "temperature", RollingWindow(rows, i, w)))

TempRolling(rows, rolling, w) ==
    IF rolling /\ NUnique(Col(rows, "date")) > 1
    THEN [i \in 1..Len(rows) |-> RollingMean(rows, i, w)]
    ELSE Col(rows, "temperature")

\* pd.to_numeric(errors="coerce").fillna(0)
CoerceDensity(x) == IF IsNaN(x) THEN Num(0) ELSE x

\* has_density decided from the first row instead of from any row.
HasDensityFirstRow(dens) == RLt(Num(0), dens[1])

\* df["density"].gt(0).any()
HasDensity(dens) == \E i \in 1..Len(dens) : RLt(Num(0), dens[i])

FeatureCols(has_density) ==
    IF has_density THEN <<"temp_rolling", "facility_score", "density">>
    ELSE <<"temp_rolling", "facility_score">>

Weights(has_density) ==
    IF has_density THEN <<<<1, 3>>, <<1, 3>>, <<1, 3>>>> ELSE <<<<1, 2>>, <<1, 2>>>>

\* features.fillna(features.mean(numeric_only=True)), one column.
FillNa(col) == LET m == Mean(col) IN [i \in 1..Len(col) |-> IF IsNaN(col[i]) THEN m ELSE col[i]]

ColMin(col) == CHOOSE m \in Range(col) : \A x \in Range(col) : ~RLt(x, m)
ColMax(col) == CHOOSE m \in Range(col) : \A x \in Range(col) : ~RLt(m, x)

\* MinMaxScaler().fit_transform, one column: a zero range scales by 1.
MinMaxScale(col) ==
    IF \E i \in 1..Len(col) : IsNaN(col[i]) THEN [i \in 1..Len(col) |-> NaN]
    ELSE LET mn == ColMin(col)
             range == RSub(ColMax(col), mn)
         IN  [i \in 1..Len(col) |->
                 IF range = Num(0) THEN RSub(col[i], mn)
                 ELSE RDiv(RSub(col[i], mn), range)]

FeaturesScaled(rows, cols) ==
    LET scaled == [k \in 1..Len(cols) |-> MinMaxScale(FillNa(Col(rows, cols[k])))]
    IN  [i \in 1..Len(rows) |-> [k \in 1..Len(cols) |-> scaled[k][i]]]

PreparedRows(rows, rolling, w) ==
    LET s == SortValues(rows)
        tr == TempRolling(s, rolling, w)
    IN  [i \in 1..Len(s) |->
            [s[i] EXCEPT !.temp_rolling = tr[i],
                         !.facility_score = s[i].facility_distance,
                         !.density = CoerceDensity(s[i].density)]]

----------------------------------------------------------------------------
(* run_kmeans_and_risk_levels                                              *)

\* KMeans.fit_predict raises ValueError on NaN input and on fewer samples than
\* clusters.
KMeansRaises(X, k) ==
    \/ \E i \in 1..Len(X) : \E j \in 1..Len(X[i]) : IsNaN(X[i][j])
    \/ Len(X) < k

\* What fit_predict can return: a label in 0..k-1 for every row, equal points
\* getting equal labels.
Labelings(X, k) ==
    {l \in [1..Len(X) -> 0..(k - 1)] :
        \A i, j \in 1..Len(X) : X[i] = X[j] => l[i] = l[j]}

Realized(rows) == {rows[i].cluster : i \in 1..Len(rows)}

Members(rows, c) == {i \in 1..Len(rows) : rows[i].cluster = c}

\* df.groupby("cluster")[feature_cols].mean(), the row of cluster c.
ClusterMeans(rows, cols, c) ==
    [k \in 1..Len(cols) |-> Mean(SeqOfIdx(rows, cols[k], Members(rows, c)))]

\* cluster_means.dot(weights), the entry of cluster c.
SeverityScore(rows, cols, w, c) == Dot(ClusterMeans(rows, cols, c), w)

\* rank(method="min"): tied clusters share the lowest rank of their group.
RankMin(score, labels) ==
    [c \in labels |->
        IF IsNaN(score[c]) THEN 0
        ELSE 1 + Cardinality({o \in labels : RLt(score[o], score[c])})]

\* Ties broken from the end of the groupby index instead of from its start.
RankLast(score, labels) ==
    [c \in labels |->
        IF IsNaN(score[c]) THEN 0
        ELSE 1 + Cardinality({o \in labels : RLt(score[o], score[c])})
               + Cardinality({o \in labels : o > c /\ score[o] = score[c]})]

\* Series.rank(method="first", ascending=True) over the groupby result, whose
\* index is the realized labels in ascending order; 0 stands for a NaN rank.
RankFirst(score, labels) ==
    [c \in labels |->
        IF IsNaN(score[c]) THEN 0
        ELSE 1 + Cardinality({o \in labels : RLt(score[o], score[c])})
               + Cardinality({o \in labels : o < c /\ score[o] = score[c]})]

ClusterRank(rows, cols, w) ==
    LET labels == Realized(rows)
        score == Value([c \in labels |-> SeverityScore(rows, cols, w, c)])
    IN  Value(RankFirst(score, labels))

----------------------------------------------------------------------------
(* main                                                                    *)

LatestDate(rows) == CHOOSE d \in Range(Col(rows, "date")) :
                        \A e \in Range(Col(rows, "date")) : e <= d

\* df[df["date"] == latest_date][["barangay_id", "risk_level", "cluster"]]
Report(rows) ==
    LET latest == LatestDate(rows)
        keep(r) == r.date = latest
        sel == SelectSeq(rows, keep)
    IN  [i \in 1..Len(sel) |->
            [barangay_id |-> sel[i].barangay_id,
             risk_level |-> sel[i].risk_level,
             cluster |-> sel[i].cluster]]

Raise(e) ==
    /\ pc' = "exit"
    /\ rc' = 1
    /\ error' = e

\* main, lines 126-131: the input file must exist.
main_start ==
    /\ pc = "main"
    /\ IF input_exists
       THEN pc' = "load_data" /\ UNCHANGED rc
       ELSE pc' = "exit" /\ rc' = 1
    /\ UNCHANGED <<inputs, columns, df, feature_cols, weights, features_scaled,
                   cluster_rank, output_file, posted, error, upload_result>>
    /\ UNCHANGED fetch_vars

load_data ==
    /\ pc = "load_data"
    /\ IF LoadFails(input_columns)
       THEN Raise("ValueError") /\ UNCHANGED <<columns, df>>
       ELSE /\ df' = [i \in 1..Len(input_table) |-> LoadRow(input_columns, input_table[i])]
            /\ columns' = input_columns \cup {"facility_distance", "density", "population"}
            /\ pc' = "prepare_features"
            /\ UNCHANGED <<rc, error>>
    /\ UNCHANGED <<inputs, feature_cols, weights, features_scaled, cluster_rank,
                   output_file, posted, upload_result>>
    /\ UNCHANGED fetch_vars

\* What prepare_features returns, the frame first.
PrepareFeatures(frame, rolling, w) ==
    LET rows == Value(PreparedRows(frame, rolling, w))
        has_density == HasDensity(Col(rows, "density"))
    IN  [df |-> rows,
         features_scaled |-> FeaturesScaled(rows, FeatureCols(has_density)),
         feature_cols |-> FeatureCols(has_density),
         weights |-> Weights(has_density)]

prepare_features ==
    /\ pc = "prepare_features"
    /\ \E r \in {PrepareFeatures(df, use_rolling, window)} :
         /\ df' = r.df
         /\ feature_cols' = r.feature_cols
         /\ weights' = r.weights
         /\ features_scaled' = r.features_scaled
    /\ columns' = columns \cup {"temp_rolling", "facility_score"}
    /\ pc' = "run_kmeans"
    /\ UNCHANGED <<inputs, cluster_rank, output_file, posted, rc, error, upload_result>>
    /\ UNCHANGED fetch_vars

\* Lines 89-95 once fit_predict has returned the labels l: the frame with its
\* cluster and risk_level columns and the rank of every realized cluster;
\* astype(int) raises when a rank is NaN.
RiskLevels(frame, l, cols, w) ==
    LET rows == Value([i \in 1..Len(frame) |-> [frame[i] EXCEPT !.cluster = l[i]]])
        rank == ClusterRank(rows, cols, w)
    IN  [raises |-> \E c \in DOMAIN rank : rank[c] = 0,
         cluster_rank |-> rank,
         df |-> [i \in 1..Len(rows) |->
                    [rows[i] EXCEPT !.risk_level = rank[rows[i].cluster]]]]

run_kmeans_and_risk_levels ==
    /\ pc = "run_kmeans"
    /\ IF KMeansRaises(features_scaled, n_clusters)
       THEN Raise("ValueError") /\ UNCHANGED <<df, columns, cluster_rank>>
       ELSE \E l \in Labelings(features_scaled, n_clusters) :
              \E r \in {RiskLevels(df, l, feature_cols, weights)} :
                 IF r.raises
                 THEN Raise("ValueError") /\ UNCHANGED <<df, columns, cluster_rank>>
                 ELSE /\ df' = r.df
                      /\ cluster_rank' = r.cluster_rank
                      /\ columns' = columns \cup {"cluster", "risk_level"}
                      /\ pc' = "write"
                      /\ UNCHANGED <<rc, error>>
    /\ UNCHANGED <<inputs, feature_cols, weights, features_scaled, output_file, posted,
                   upload_result>>
    /\ UNCHANGED fetch_vars

\* main, lines 140-143.
write_report ==
    /\ pc = "write"
    /\ output_file' = File(Report(df))
    /\ pc' = "upload"
    /\ UNCHANGED <<inputs, columns, df, feature_cols, weights, features_scaled,
                   cluster_rank, posted, rc, error, upload_result>>
    /\ UNCHANGED fetch_vars

UploadOutcomes == {"ok", "error_status", "unreachable"}

\* main without the try/except around the upload: a failed upload fails the run.
ReturnCodeOfUpload(outcome) == IF outcome = "ok" THEN 0 ELSE 1

\* What main returns once the upload block is over.
ReturnCode(outcome) == 0

\* main, lines 146-167: the optional upload, then return 0.
upload_report ==
    /\ pc = "upload"
    /\ IF backend_url /\ upload
       THEN \E outcome \in UploadOutcomes :
              /\ posted' = IF outcome = "unreachable" THEN posted ELSE output_file
              /\ upload_result' = IF outcome = "ok" THEN "ok" ELSE "failed"
              /\ rc' = ReturnCode(outcome)
       ELSE /\ rc' = ReturnCode("ok")
            /\ UNCHANGED <<posted, upload_result>>
    /\ pc' = "exit"
    /\ UNCHANGED <<inputs, columns, df, feature_cols, weights, features_scaled,
                   cluster_rank, output_file, error>>
    /\ UNCHANGED fetch_vars

----------------------------------------------------------------------------
(* The inputs of a run of the pipeline.                                    *)

MaxRows == 3
MaxClusters == 2
MaxWindow == 2
DefaultWindow == 7

\* A cell of the density column that is text, not a number.
NonNumeric == <<1, 0>>

Row(id, date, temp, fdist, fscore, dens) ==
    [barangay_id |-> id, date |-> date, temperature |-> temp,
     facility_distance |-> fdist, facility_score |-> fscore, density |-> dens,
     temp_rolling |-> NaN, cluster |-> -1, risk_level |-> 0]

\* A row of a CSV whose header is cols: a column the file lacks holds nothing.
Project(cols, r) ==
    [r EXCEPT !.temperature = IF "temperature" \in cols THEN @ ELSE NaN,
              !.facility_distance = IF "facility_distance" \in cols THEN @ ELSE NaN,
              !.facility_score = IF "facility_score" \in cols THEN @ ELSE NaN,
              !.density = IF "density" \in cols THEN @ ELSE NaN]

Tables(rowset, n) == UNION {[1..k -> rowset] : k \in 1..n}

\* Single-day tables: row i is unit i's, its other cells drawn from cells.
UnitTables(cells, n) ==
    UNION {{[i \in 1..k |-> Row(i, 1, c[i][1], c[i][2], c[i][3], c[i][4])] :
               c \in [1..k -> cells]} : k \in 1..n}

FullColumns == AllColumns \ {"facility_score"}

FetchIdle ==
    /\ history = [exists |-> FALSE, cols |-> <<>>, rows |-> <<>>]
    /\ history0 = history
    /\ snapshot_file = history
    /\ appends = 0

InitPipe(colsets, tables, exists, rollings, windows, ks, uploads, urls) ==
    /\ pc = "main"
    /\ input_exists \in exists
    /\ input_columns \in colsets
    /\ \E t \in tables : input_table = [i \in 1..Len(t) |-> Project(input_columns, t[i])]
    /\ columns = {}
    /\ df = <<>>
    /\ use_rolling \in rollings
    /\ window \in windows
    /\ n_clusters \in ks
    /\ upload \in uploads
    /\ backend_url \in urls
    /\ feature_cols = <<>>
    /\ weights = <<>>
    /\ features_scaled = <<>>
    /\ cluster_rank = <<>>
    /\ output_file = Absent
    /\ posted = Absent
    /\ rc = NoRc
    /\ error = ""
    /\ upload_result = "none"
    /\ FetchIdle

\* Single-day tables whose temperature and facility values vary: the clustering
\* and the ranking.  The cells give equal severities to different points and
\* spread the temperatures unevenly.
RankCells ==
    {<<Num(c[1]), Num(c[2]), NaN, Num(0)>> : c \in {<<0, 0>>, <<1, 0>>, <<3, 0>>, <<0, 1>>, <<3, 1>>}}

Init ==
    InitPipe({FullColumns}, UnitTables(RankCells, MaxRows), {TRUE}, {TRUE},
             {DefaultWindow}, 1..MaxClusters, {FALSE}, {FALSE})

Next ==
    \/ main_start
    \/ load_data
    \/ prepare_features
    \/ run_kmeans_and_risk_levels
    \/ write_report
    \/ upload_report

Spec == Init /\ [][Next]_vars

\* Tables of any header: the schema check, and the upload that ends the run.
SchemaCells == {<<Num(t), Num(0), Num(1), Num(1)>> : t \in 0..1}

InitSchema ==
    InitPipe(SUBSET AllColumns, UnitTables(SchemaCells, MaxRows), BOOLEAN, {TRUE},
             {DefaultWindow}, {1}, BOOLEAN, BOOLEAN)

SpecSchema == InitSchema /\ [][Next]_vars

\* Single-day tables whose density cells vary: the choice of the feature set.
FeatureCells ==
    {<<Num(t), Num(1), NaN, d>> : t \in 0..1, d \in {NaN, NonNumeric, Num(-1), Num(0), Num(2)}}

InitFeatures ==
    InitPipe({FullColumns, FullColumns \ {"density"}}, UnitTables(FeatureCells, MaxRows),
             {TRUE}, {TRUE}, {DefaultWindow}, {1}, {FALSE}, {FALSE})

SpecFeatures == InitFeatures /\ [][Next]_vars

\* Histories of several days in which units miss days, repeat days and miss
\* temperatures: the smoothing and the latest-date report.
HistoryRows ==
    {Row(id, d, t, Num(1), NaN, Num(0)) : id \in 1..2, d \in 1..3, t \in {NaN, Num(0), Num(2)}}

InitRolling ==
    InitPipe({FullColumns}, Tables(HistoryRows, MaxRows), {TRUE}, BOOLEAN,
             1..MaxWindow, {1}, {FALSE}, {FALSE})

SpecRolling == InitRolling /\ [][Next]_vars

----------------------------------------------------------------------------
(* fetch_pipeline_data.py: main, lines 226-252.                            *)
(*                                                                         *)
(* A CSV file holds text cells. A frame holds typed values: NA, an int, a  *)
(* float (here always a whole number n, written n.0) or a str.             *)

CsvFile(cols, rows) == [exists |-> TRUE, cols |-> cols, rows |-> rows]
NoCsv == [exists |-> FALSE, cols |-> <<>>, rows |-> <<>>]

NA == [t |-> "na", n |-> 0, s |-> ""]
IntV(n) == [t |-> "int", n |-> n, s |-> ""]
FloatV(n) == [t |-> "float", n |-> n, s |-> ""]
StrV(s) == [t |-> "str", n |-> 0, s |-> s]

\* The texts of the numbers 0, 1, 2: as to_csv writes an int, as a file may
\* hold it with a leading zero, and as to_csv writes a float.
IntTexts == <<"0", "1", "2">>
PaddedTexts == <<"00", "01", "02">>
FloatTexts == <<"0.0", "1.0", "2.0">>
\* Texts read_csv takes for a missing value.
NaTexts == {"", "NA"}

IsIntText(s) == \E k \in 1..Len(IntTexts) : s = IntTexts[k] \/ s = PaddedTexts[k]
IsFloatText(s) == \E k \in 1..Len(FloatTexts) : s = FloatTexts[k]
NumberOf(s) ==
    (CHOOSE k \in 1..Len(IntTexts) : s = IntTexts[k] \/ s = PaddedTexts[k] \/ s = FloatTexts[k]) - 1

\* The dtype read_csv infers for a column from its cells.
InferDtype(cells) ==
    IF cells = {} THEN "object"
    ELSE IF \A s \in cells : IsIntText(s) THEN "int64"
    ELSE IF \A s \in cells : IsIntText(s) \/ IsFloatText(s) \/ s \in NaTexts THEN "float64"
    ELSE "object"

ParseCell(dtype, s) ==
    IF dtype = "int64" THEN IntV(NumberOf(s))
    ELSE IF s \in NaTexts THEN NA
    ELSE IF dtype = "float64" THEN FloatV(NumberOf(s))
    ELSE StrV(s)

\* pd.read_csv(append_path)
ReadCsv(file) ==
    LET dtype == [c \in Range(file.cols) |->
                     InferDtype({file.rows[i][c] : i \in 1..Len(file.rows)})]
    IN  [cols |-> file.cols,
         dtype |-> dtype,
         rows |-> [i \in 1..Len(file.rows) |->
                      [c \in Range(file.cols) |-> ParseCell(dtype[c], file.rows[i][c])]]]

CellText(v) ==
    IF v.t = "na" THEN ""
    ELSE IF v.t = "int" THEN IntTexts[v.n + 1]
    ELSE IF v.t = "float" THEN FloatTexts[v.n + 1]
    ELSE v.s

\* df.to_csv(path, index=False)
ToCsv(frame) ==
    CsvFile(frame.cols,
            [i \in 1..Len(frame.rows) |->
                [c \in Range(frame.cols) |-> CellText(frame.rows[i][c])]])

\* A value of a column whose dtype is dtype.
Cast(dtype, v) == IF dtype = "float64" /\ v.t = "int" THEN FloatV(v.n) ELSE v

SnapshotColumns ==
    <<"barangay_id", "date", "temperature", "facility_distance", "population", "density">>

\* The dtype pandas gives a column built from Python values.
ValuesDtype(vals) ==
    IF \A v \in vals : v.t = "int" THEN "int64"
    ELSE IF \A v \in vals : v.t \in {"int", "float"} THEN "float64"
    ELSE "object"

\* pd.DataFrame(rows)
DataFrame(rows) ==
    LET dtype == [c \in Range(SnapshotColumns) |->
                     ValuesDtype({rows[i][c] : i \in 1..Len(rows)})]
    IN  [cols |-> SnapshotColumns,
         dtype |-> dtype,
         rows |-> [i \in 1..Len(rows) |->
                      [c \in Range(SnapshotColumns) |-> Cast(dtype[c], rows[i][c])]]]

\* Lines 244-246: every column of df the history lacks is added to it, all NA.
AddMissingColumns(existing, new) ==
    LET lacks(c) == c \notin Range(existing.cols)
        added == SelectSeq(new.cols, lacks)
    IN  [cols |-> existing.cols \o added,
         dtype |-> [c \in Range(existing.cols) \cup Range(added) |->
                       IF c \in Range(existing.cols) THEN existing.dtype[c] ELSE "object"],
         rows |-> [i \in 1..Len(existing.rows) |->
                      [c \in Range(existing.cols) \cup Range(added) |->
                          IF c \in Range(existing.cols) THEN existing.rows[i][c] ELSE NA]]]

\* The dtype of a column of concat's result.
CommonDtype(a, b) ==
    IF a = b THEN a
    ELSE IF {a, b} = {"int64", "float64"} THEN "float64"
    ELSE "object"

\* The rows of the two frames in this order.
ConcatRowsNewFirst(old, new) == new \o old

\* The rows of concat's result: those of the first frame, then the second's.
ConcatRows(old, new) == old \o new

\* pd.concat([existing, df], ignore_index=True), the columns of df all in
\* existing: a column df lacks is NA in df's rows, which makes an int64 column
\* float64.
Concat(existing, new) ==
    LET dtype == [c \in Range(existing.cols) |->
                     IF c \in Range(new.cols)
                     THEN CommonDtype(existing.dtype[c], new.dtype[c])
                     ELSE IF existing.dtype[c] = "int64" THEN "float64"
                     ELSE existing.dtype[c]]
        old == [i \in 1..Len(existing.rows) |->
                   [c \in Range(existing.cols) |-> Cast(dtype[c], existing.rows[i][c])]]
        app == [i \in 1..Len(new.rows) |->
                   [c \in Range(existing.cols) |->
                       IF c \in Range(new.cols) THEN Cast(dtype[c], new.rows[i][c]) ELSE NA]]
    IN  [cols |-> existing.cols, dtype |-> dtype, rows |-> ConcatRows(old, app)]

MaxAppends == 2
MaxHistoryRows == 1

\* The snapshots a run can fetch: one row per unit, the density 0 of a unit
\* without population data an int, any other density a float.
SnapshotRow(id, dens) ==
    [c \in Range(SnapshotColumns) |->
        IF c = "barangay_id" THEN StrV(id)
        ELSE IF c = "date" THEN StrV("d2")
        ELSE IF c = "population" THEN IntV(1)
        ELSE IF c = "density" THEN dens
        ELSE FloatV(1)]

Snapshots == {<<SnapshotRow("01", IntV(0))>>, <<SnapshotRow("x", FloatV(2))>>}

\* Lines 243-248: the history file once the frame new is appended to it.
Appended(file, new) == ToCsv(Concat(AddMissingColumns(ReadCsv(file), new), new))

fetch_main ==
    /\ appends < MaxAppends
    /\ \E rows \in Snapshots, append \in BOOLEAN :
         IF append
         THEN /\ history' = IF history.exists THEN Appended(history, DataFrame(rows))
                            ELSE ToCsv(DataFrame(rows))
              /\ appends' = appends + 1
              /\ UNCHANGED snapshot_file
         ELSE /\ snapshot_file' = ToCsv(DataFrame(rows))
              /\ UNCHANGED <<history, appends>>
    /\ UNCHANGED history0
    /\ UNCHANGED pipe_vars

\* The history tables a first append can find: any header that has the unit id
\* and the date, the cells of each column drawn from a few texts.
HistoryColumns == SnapshotColumns \o <<"note">>

HistoryTexts(c) ==
    IF c = "barangay_id" THEN {"01", "x"}
    ELSE IF c = "date" THEN {"d1"}
    ELSE IF c = "population" THEN {"1"}
    ELSE IF c = "density" THEN {"0", "2.0"}
    ELSE IF c = "note" THEN {"NA", "2", "x"}
    ELSE {"1.0"}

\* The rows a file with header cols can hold.
RECURSIVE HistoryRowsOver(_)
HistoryRowsOver(cols) ==
    IF cols = <<>> THEN {<<>>}
    ELSE {(Head(cols) :> t) @@ r : t \in HistoryTexts(Head(cols)),
                                   r \in HistoryRowsOver(Tail(cols))}

Histories ==
    UNION {
        LET has(c) == c \in {"barangay_id", "date"} \cup extra
            cols == SelectSeq(HistoryColumns, has)
        IN  {CsvFile(cols, rows) :
                rows \in UNION {[1..n -> HistoryRowsOver(cols)] : n \in 0..MaxHistoryRows}}
        : extra \in SUBSET (Range(HistoryColumns) \ {"barangay_id", "date"})}

InitAppend ==
    /\ history \in {NoCsv} \cup Histories
    /\ history0 = history
    /\ snapshot_file = NoCsv
    /\ appends = 0
    /\ pc = "exit"
    /\ input_exists = FALSE
    /\ input_columns = {}
    /\ input_table = <<>>
    /\ columns = {}
    /\ df = <<>>
    /\ use_rolling = TRUE
    /\ window = DefaultWindow
    /\ n_clusters = 1
    /\ upload = FALSE
    /\ backend_url = FALSE
    /\ feature_cols = <<>>
    /\ weights = <<>>
    /\ features_scaled = <<>>
    /\ cluster_rank = <<>>
    /\ output_file = Absent
    /\ posted = Absent
    /\ rc = NoRc
    /\ error = ""
    /\ upload_result = "none"

NextAppend == fetch_main

SpecAppend == InitAppend /\ [][NextAppend]_vars

----------------------------------------------------------------------------
(* Properties of the pipeline.                                             *)

\* The header lacks the unit id, the date or the temperature column, or both
\* facility columns.
SchemaIncomplete(cols) ==
    \/ "barangay_id" \notin cols
    \/ "date" \notin cols
    \/ "temperature" \notin cols
    \/ cols \cap {"facility_distance", "facility_score"} = {}

NothingComputed ==
    /\ columns = {}
    /\ df = <<>>
    /\ feature_cols = <<>>
    /\ weights = <<>>
    /\ features_scaled = <<>>
    /\ cluster_rank = <<>>
    /\ output_file = Absent
    /\ posted = Absent

\* C1: once load_data has run, a header that lacks barangay_id, date,
\* temperature or both facility columns has ended the run with the schema error
\* (ValueError) and nothing was smoothed, scaled, clustered or written; any
\* other header was loaded without an error, every row kept.
C1_SchemaError ==
    (input_exists /\ pc \notin {"main", "load_data"}) =>
        IF SchemaIncomplete(input_columns)
        THEN pc = "exit" /\ error = "ValueError" /\ rc = 1 /\ NothingComputed
        ELSE /\ Len(df) = Len(input_table)
             /\ {"barangay_id", "date", "temperature", "facility_distance"} \subseteq columns
             /\ (pc = "prepare_features" => error = "" /\ rc = NoRc)

\* A run whose header has the three required columns and no facility column
\* ended with the schema error.
C1_Witness ==
    /\ pc = "exit"
    /\ error = "ValueError"
    /\ input_columns = {"barangay_id", "date", "temperature", "density"}

Prepared == "temp_rolling" \in columns

\* A density cell that is a number above 0.
IsPositiveNumber(cell) == cell[2] # 0 /\ cell[1] > 0

AnyDensity ==
    /\ "density" \in input_columns
    /\ \E i \in 1..Len(input_table) : IsPositiveNumber(input_table[i].density)

\* C2: after prepare_features the run has one feature list and one weight
\* vector: the three features with weights 1/3 each if and only if some input
\* row has a numeric density above 0, otherwise the two features with weights
\* 1/2 each; the weights sum to 1 and are as many as the feature names, and
\* every row of the scaled matrix has one value per feature name.
C2_FeatureSet ==
    Prepared =>
        /\ IF AnyDensity
           THEN /\ feature_cols = <<"temp_rolling", "facility_score", "density">>
                /\ weights = <<<<1, 3>>, <<1, 3>>, <<1, 3>>>>
           ELSE /\ feature_cols = <<"temp_rolling", "facility_score">>
                /\ weights = <<<<1, 2>>, <<1, 2>>>>
        /\ RSum(weights) = Num(1)
        /\ Len(weights) = Len(feature_cols)
        /\ Len(features_scaled) = Len(df)
        /\ \A i \in 1..Len(features_scaled) : Len(features_scaled[i]) = Len(feature_cols)

\* One row has density above 0, another has a density cell that is no number
\* and counts as 0: the three features were chosen for both.
C2_Witness ==
    /\ Prepared
    /\ Len(feature_cols) = 3
    /\ \E i \in 1..Len(input_table) : input_table[i].density = NonNumeric
    /\ \E i \in 1..Len(df) : df[i].density = Num(0)

Ranked == "risk_level" \in columns

\* The severity score of cluster c as line 93 computes it.
Score(c) == SeverityScore(df, feature_cols, weights, c)

\* C3: after run_kmeans_and_risk_levels the levels of the n realized clusters
\* are exactly 1..n, one cluster per level; a cluster whose severity_score is
\* strictly lower has a strictly lower level; every row has its cluster's level.
C3_DenseRanking ==
    Ranked =>
        LET labels == Realized(df)
            score == Value([c \in labels |-> Score(c)])
        IN  /\ DOMAIN cluster_rank = labels
            /\ {cluster_rank[c] : c \in labels} = 1..Cardinality(labels)
            /\ \A a, b \in labels : a # b => cluster_rank[a] # cluster_rank[b]
            /\ \A a, b \in labels : RLt(score[a], score[b]) => cluster_rank[a] < cluster_rank[b]
            /\ \A i \in 1..Len(df) : df[i].risk_level = cluster_rank[df[i].cluster]

\* Two realized clusters, the one with the smaller label having the higher
\* score and so level 2.
C3_Witness ==
    /\ Ranked
    /\ Cardinality(Realized(df)) = 2
    /\ \E a, b \in Realized(df) : a < b /\ RLt(Score(b), Score(a)) /\ cluster_rank[a] = 2

\* The weighted sum of the means of cluster c's rows of features_scaled.
ScaledScore(c) ==
    Dot([k \in 1..Len(feature_cols) |-> Mean(SeqOfIdx(features_scaled, k, Members(df, c)))],
        weights)

\* C4: the clusters are ordered by the weighted sum of the means of their
\* scaled feature values: a cluster with a strictly lower scaled score has a
\* strictly lower level.
C4_OrderByScaledScore ==
    Ranked =>
        \A a, b \in Realized(df) :
            RLt(ScaledScore(a), ScaledScore(b)) => cluster_rank[a] < cluster_rank[b]

FirstSeen(c) == CHOOSE i \in Members(df, c) : \A j \in Members(df, c) : i <= j

Tied(a, b) == a # b /\ Score(a) = Score(b)

InputLatest == LatestDate(input_table)

\* C6: the report has exactly one row for every unit with a row on the latest
\* date of the input, and no row for any other unit.
C6_OneRowPerUnit ==
    output_file # Absent =>
        \A u \in Range(Col(input_table, "barangay_id")) :
            Cardinality({k \in 1..Len(output_file.rows) :
                            output_file.rows[k].barangay_id = u})
                = IF \E i \in 1..Len(input_table) :
                        input_table[i].barangay_id = u /\ input_table[i].date = InputLatest
                  THEN 1 ELSE 0

\* The rows of i's unit whose date lies in the w days ending at row i's date.
DayWindow(rows, i, w) ==
    {j \in 1..Len(rows) :
        /\ rows[j].barangay_id = rows[i].barangay_id
        /\ rows[j].date <= rows[i].date
        /\ rows[i].date - rows[j].date < w}

\* C7: with smoothing enabled and more than one date in the input, the rolling
\* temperature of every row is the mean of the temperatures of the same unit's
\* rows dated within the window days ending at the row's date, and no row is
\* dropped.
C7_TrailingDays ==
    (Prepared /\ use_rolling /\ NUnique(Col(input_table, "date")) > 1) =>
        /\ Len(df) = Len(input_table)
        /\ \A i \in 1..Len(df) :
               df[i].temp_rolling = Mean(SeqOfIdx(df, "temperature", DayWindow(df, i, window)))

\* C8: for an accepted table with at least as many rows as clusters,
\* prepare_features leaves no missing value in the scaled matrix, and the run
\* ends without an exception, every row given a risk level.
C8_NeverRaises ==
    (input_exists /\ ~SchemaIncomplete(input_columns) /\ Len(input_table) >= n_clusters) =>
        /\ (Prepared =>
               \A i \in 1..Len(features_scaled) :
                   \A k \in 1..Len(features_scaled[i]) : ~IsNaN(features_scaled[i][k]))
        /\ (pc = "exit" =>
               /\ error = ""
               /\ Len(df) = Len(input_table)
               /\ \A i \in 1..Len(df) : df[i].risk_level >= 1)

\* C10: the upload is attempted only after the report is written; what is
\* posted is the written report; an upload that fails leaves the report as
\* written and the run returns 0.
C10_UploadAfterWrite ==
    /\ (pc = "upload" => output_file = File(Report(df)))
    /\ (upload_result # "none" => upload /\ backend_url /\ output_file = File(Report(df)))
    /\ (posted # Absent => posted = output_file)
    /\ ((pc = "exit" /\ upload_result = "failed") => rc = 0 /\ error = "")

\* A run whose upload failed.
C10_Witness ==
    /\ pc = "exit"
    /\ upload
    /\ upload_result = "failed"
    /\ posted = Absent
    /\ output_file # Absent
    /\ rc = 0

----------------------------------------------------------------------------
(* Properties of the fetch script's append mode.                           *)

\* What a text cell stands for: nothing, a number or a text.
Sem(s) ==
    IF s \in NaTexts THEN <<"na", 0, "">>
    ELSE IF IsIntText(s) \/ IsFloatText(s) THEN <<"number", NumberOf(s), "">>
    ELSE <<"text", 0, s>>

\* What a fetched value stands for.
SemValue(v) ==
    IF v.t = "na" THEN <<"na", 0, "">>
    ELSE IF v.t = "str" THEN Sem(v.s)
    ELSE <<"number", v.n, "">>

====
